---- MODULE Spec2Model ----
(***************************************************************************)
(* Model of ga-cli (src/src/main.rs): a wrapper that runs                  *)
(*   .git check -> git add . -> message acquisition -> git commit -s -m    *)
(*   -> git push origin <branch>                                           *)
(* Text is a sequence of one-character strings, so that trim() and         *)
(* contains() are computed on characters as the code computes them.        *)
(* Option<T> is a sequence of length 0 (None) or 1 (Some(v)).              *)
(***************************************************************************)
EXTENDS Integers, Sequences, FiniteSets, TLC

\* ---------------------------------------------------------------- bounds
MaxMsgLen == 3      \* longest message typed on the command line or prompt
MaxPad == 1         \* longest padding on each side of the core of a stderr text

\* ---------------------------------------------------------------- text
Whitespace == {" ", "\t"}
Chars == Whitespace \cup {"a"}

Texts(alphabet, n) == UNION {[1..k -> alphabet] : k \in 0..n}

RECURSIVE TrimStart(_)
TrimStart(s) ==
    IF s = <<>> THEN <<>>
    ELSE IF Head(s) \in Whitespace THEN TrimStart(Tail(s)) ELSE s

RECURSIVE TrimEnd(_)
TrimEnd(s) ==
    IF s = <<>> THEN <<>>
    ELSE IF s[Len(s)] \in Whitespace THEN TrimEnd(SubSeq(s, 1, Len(s) - 1)) ELSE s

\* str::trim as used at main.rs:103 and main.rs:119
Trim(s) == TrimEnd(TrimStart(s))

\* str::contains as used at main.rs:147
Contains(hay, needle) ==
    \E i \in 0..(Len(hay) - Len(needle)) : SubSeq(hay, i + 1, i + Len(needle)) = needle

\* the literal "nothing to commit" of main.rs:147
NothingToCommitText ==
    <<"n","o","t","h","i","n","g"," ","t","o"," ","c","o","m","m","i","t">>

\* ---------------------------------------------------------------- inputs
Messages == Texts(Chars, MaxMsgLen)
Branches == {"feature-x", "main", "dev"}
DefaultBranch == "main"
Remote == "origin"

None == <<>>
Some(v) == <<v>>
UnwrapOr(opt, default) == IF opt = None THEN default ELSE opt[1]

ArgsSet ==
    [message : {None} \cup {Some(m) : m \in Messages},
     origin  : {None} \cup {Some(b) : b \in Branches},
     verbose : BOOLEAN]

Pads == Texts({"x"}, MaxPad)
StderrCores ==
    {<<>>, NothingToCommitText, SubSeq(NothingToCommitText, 1, Len(NothingToCommitText) - 1)}
StderrTexts == {p \o c \o p : p \in Pads, c \in StderrCores}
StdoutTexts == {<<>>, <<"o">>}

\* what Command::output() can return: an io::Error, or an Output
SpawnError ==
    [spawned |-> FALSE, success |-> FALSE, stdout |-> <<>>, stderr |-> <<>>,
     ioerr |-> <<"ENOENT">>]
Outputs ==
    {[spawned |-> TRUE, success |-> s, stdout |-> o, stderr |-> e, ioerr |-> <<>>] :
        s \in BOOLEAN, o \in StdoutTexts, e \in StderrTexts}
Responses == {SpawnError} \cup Outputs

\* what Input::interact_text() can return: an error, or the entered line
PromptResponses ==
    {[ok |-> FALSE, text |-> <<>>, ioerr |-> <<"EOF">>]}
    \cup {[ok |-> TRUE, text |-> t, ioerr |-> <<>>] : t \in Messages}

\* ---------------------------------------------------------------- output lines
Line(tag, text) == [tag |-> tag, text |-> text]
NoLine == Line("", <<>>)

NotARepoError == Line("Not a git repository. No .git directory found.", <<>>)
EmptyMessageError == Line("Commit message cannot be empty", <<>>)
NothingToCommitError == Line("Nothing to commit, working tree clean", <<>>)
SuccessLine == Line("Successfully pushed the code!", <<>>)

\* ---------------------------------------------------------------- invocations
Status(resp) ==
    IF ~resp.spawned THEN "spawn_error"
    ELSE IF resp.success THEN "success" ELSE "failure"

GitCall(argv, msgArg, resp) ==
    [prog |-> "git", argv |-> argv, msgArg |-> msgArg, status |-> Status(resp)]

PromptCall(presp) ==
    [prog |-> "prompt", argv |-> <<"Enter commit message">>, msgArg |-> <<>>,
     status |-> IF presp.ok THEN "success" ELSE "read_error"]

Ok(call, out) == [ok |-> TRUE, err |-> NoLine, out |-> out, call |-> call]
Err(call, out, e) == [ok |-> FALSE, err |-> e, out |-> out, call |-> call]

\* ---------------------------------------------------------------- step functions
\* mutant: the status of git add is not examined
run_git_add_IgnoreStatus(verbose, resp) ==
    LET call == GitCall(<<"add", ".">>, <<>>, resp)
        banner == <<Line("Running git add .", <<>>)>>
    IN  IF ~resp.spawned
        THEN Err(call, banner, Line("Failed to execute git add: ", resp.ioerr))
        ELSE Ok(call,
                banner
                \o (IF verbose /\ resp.stdout # <<>> THEN <<Line("", resp.stdout)>> ELSE <<>>)
                \o <<Line("Staged all changes", <<>>)>>)

\* fn run_git_add(verbose) with the result of Command::output() as resp
run_git_add(verbose, resp) ==
    LET call == GitCall(<<"add", ".">>, <<>>, resp)
        banner == <<Line("Running git add .", <<>>)>>
    IN  IF ~resp.spawned
        THEN Err(call, banner, Line("Failed to execute git add: ", resp.ioerr))
        ELSE IF ~resp.success
        THEN Err(call, banner, Line("git add failed: ", resp.stderr))
        ELSE Ok(call,
                banner
                \o (IF verbose /\ resp.stdout # <<>> THEN <<Line("", resp.stdout)>> ELSE <<>>)
                \o <<Line("Staged all changes", <<>>)>>)

\* mutant: emptiness is tested without trimming
ValidateSupplied_NoTrim(msg) ==
    IF msg = <<>>
    THEN [ok |-> FALSE, val |-> <<>>, err |-> EmptyMessageError, out |-> <<>>, calls |-> <<>>]
    ELSE [ok |-> TRUE, val |-> msg, err |-> NoLine, out |-> <<>>, calls |-> <<>>]

\* mutant: the trimmed message is passed on
ValidateSupplied_Trimmed(msg) ==
    IF Trim(msg) = <<>>
    THEN [ok |-> FALSE, val |-> <<>>, err |-> EmptyMessageError, out |-> <<>>, calls |-> <<>>]
    ELSE [ok |-> TRUE, val |-> Trim(msg), err |-> NoLine, out |-> <<>>, calls |-> <<>>]

\* the Some(msg) arm of get_commit_message
ValidateSupplied(msg) ==
    IF Trim(msg) = <<>>
    THEN [ok |-> FALSE, val |-> <<>>, err |-> EmptyMessageError, out |-> <<>>, calls |-> <<>>]
    ELSE [ok |-> TRUE, val |-> msg, err |-> NoLine, out |-> <<>>, calls |-> <<>>]

\* mutant: the entered line is tested for emptiness without trimming
PromptAndValidate_NoTrim(presp) ==
    LET banner == <<Line("Commit message required", <<>>)>>
        asked == <<PromptCall(presp)>>
    IN  IF ~presp.ok
        THEN [ok |-> FALSE, val |-> <<>>, err |-> Line("Failed to read input: ", presp.ioerr),
              out |-> banner, calls |-> asked]
        ELSE IF presp.text = <<>>
        THEN [ok |-> FALSE, val |-> <<>>, err |-> EmptyMessageError,
              out |-> banner, calls |-> asked]
        ELSE [ok |-> TRUE, val |-> presp.text, err |-> NoLine,
              out |-> banner, calls |-> asked]

\* mutant: an entered line that is empty is reported with an error of its own
PromptAndValidate_DistinctError(presp) ==
    LET banner == <<Line("Commit message required", <<>>)>>
        asked == <<PromptCall(presp)>>
    IN  IF ~presp.ok
        THEN [ok |-> FALSE, val |-> <<>>, err |-> Line("Failed to read input: ", presp.ioerr),
              out |-> banner, calls |-> asked]
        ELSE IF Trim(presp.text) = <<>>
        THEN [ok |-> FALSE, val |-> <<>>, err |-> Line("No commit message entered", <<>>),
              out |-> banner, calls |-> asked]
        ELSE [ok |-> TRUE, val |-> presp.text, err |-> NoLine,
              out |-> banner, calls |-> asked]

\* mutant: the entered line is not validated
PromptAndValidate_NoValidation(presp) ==
    LET banner == <<Line("Commit message required", <<>>)>>
        asked == <<PromptCall(presp)>>
    IN  IF ~presp.ok
        THEN [ok |-> FALSE, val |-> <<>>, err |-> Line("Failed to read input: ", presp.ioerr),
              out |-> banner, calls |-> asked]
        ELSE [ok |-> TRUE, val |-> presp.text, err |-> NoLine,
              out |-> banner, calls |-> asked]

\* the None arm of get_commit_message, with the result of interact_text() as presp
PromptAndValidate(presp) ==
    LET banner == <<Line("Commit message required", <<>>)>>
        asked == <<PromptCall(presp)>>
    IN  IF ~presp.ok
        THEN [ok |-> FALSE, val |-> <<>>, err |-> Line("Failed to read input: ", presp.ioerr),
              out |-> banner, calls |-> asked]
        ELSE IF Trim(presp.text) = <<>>
        THEN [ok |-> FALSE, val |-> <<>>, err |-> EmptyMessageError,
              out |-> banner, calls |-> asked]
        ELSE [ok |-> TRUE, val |-> presp.text, err |-> NoLine,
              out |-> banner, calls |-> asked]

\* fn get_commit_message(message: Option<String>)
get_commit_message(message, presp) ==
    IF message # None THEN ValidateSupplied(message[1]) ELSE PromptAndValidate(presp)

\* the interactive prompt is consulted only when no message was supplied
PromptInputs(message) ==
    IF message = None THEN PromptResponses ELSE {[ok |-> FALSE, text |-> <<>>, ioerr |-> <<>>]}

\* mutant: the stderr text is compared for a prefix instead of searched
CommitFailure_StartsWith(stderr) ==
    IF Len(stderr) >= Len(NothingToCommitText)
       /\ SubSeq(stderr, 1, Len(NothingToCommitText)) = NothingToCommitText
    THEN NothingToCommitError
    ELSE Line("git commit failed: ", stderr)

\* the error run_git_commit builds from a non-success status
CommitFailure(stderr) ==
    IF Contains(stderr, NothingToCommitText)
    THEN NothingToCommitError
    ELSE Line("git commit failed: ", stderr)

\* mutant: a git commit that could not be started is not reported
run_git_commit_SpawnUnchecked(message, verbose, resp) ==
    LET call == GitCall(<<"commit", "-s", "-m">>, <<message>>, resp)
        banner == <<Line("Committing with message: ", message)>>
    IN  IF resp.spawned /\ ~resp.success
        THEN Err(call, banner, CommitFailure(resp.stderr))
        ELSE Ok(call,
                banner
                \o (IF verbose THEN <<Line("", resp.stdout)>> ELSE <<>>)
                \o <<Line("Commit created", <<>>)>>)

\* mutant: only the "nothing to commit" text is treated as a failure
run_git_commit_OnlyNothingToCommit(message, verbose, resp) ==
    LET call == GitCall(<<"commit", "-s", "-m">>, <<message>>, resp)
        banner == <<Line("Committing with message: ", message)>>
    IN  IF ~resp.spawned
        THEN Err(call, banner, Line("Failed to execute git commit: ", resp.ioerr))
        ELSE IF ~resp.success /\ Contains(resp.stderr, NothingToCommitText)
        THEN Err(call, banner, NothingToCommitError)
        ELSE Ok(call,
                banner
                \o (IF verbose THEN <<Line("", resp.stdout)>> ELSE <<>>)
                \o <<Line("Commit created", <<>>)>>)

\* fn run_git_commit(message, verbose)
run_git_commit(message, verbose, resp) ==
    LET call == GitCall(<<"commit", "-s", "-m">>, <<message>>, resp)
        banner == <<Line("Committing with message: ", message)>>
    IN  IF ~resp.spawned
        THEN Err(call, banner, Line("Failed to execute git commit: ", resp.ioerr))
        ELSE IF ~resp.success
        THEN Err(call, banner, CommitFailure(resp.stderr))
        ELSE Ok(call,
                banner
                \o (IF verbose THEN <<Line("", resp.stdout)>> ELSE <<>>)
                \o <<Line("Commit created", <<>>)>>)

\* mutant: a failed push is reported only under verbose
run_git_push_QuietIgnoresFailure(branch, verbose, resp) ==
    LET call == GitCall(<<"push", Remote, branch>>, <<>>, resp)
        banner == <<Line("Pushing to origin/", <<branch>>)>>
    IN  IF ~resp.spawned
        THEN Err(call, banner, Line("Failed to execute git push: ", resp.ioerr))
        ELSE IF verbose /\ ~resp.success
        THEN Err(call, banner, Line("git push failed: ", resp.stderr))
        ELSE Ok(call,
                banner
                \o (IF verbose /\ resp.stdout # <<>> THEN <<Line("", resp.stdout)>> ELSE <<>>)
                \o (IF verbose /\ resp.stderr # <<>> THEN <<Line("", resp.stderr)>> ELSE <<>>)
                \o <<Line("Pushed to origin/", <<branch>>)>>)

\* mutant: under verbose both streams of git push are printed even when empty
run_git_push_AlwaysPrints(branch, verbose, resp) ==
    LET call == GitCall(<<"push", Remote, branch>>, <<>>, resp)
        banner == <<Line("Pushing to origin/", <<branch>>)>>
    IN  IF ~resp.spawned
        THEN Err(call, banner, Line("Failed to execute git push: ", resp.ioerr))
        ELSE IF ~resp.success
        THEN Err(call, banner, Line("git push failed: ", resp.stderr))
        ELSE Ok(call,
                banner
                \o (IF verbose THEN <<Line("", resp.stdout), Line("", resp.stderr)>> ELSE <<>>)
                \o <<Line("Pushed to origin/", <<branch>>)>>)

\* mutant: the status of git push is not examined
run_git_push_IgnoreStatus(branch, verbose, resp) ==
    LET call == GitCall(<<"push", Remote, branch>>, <<>>, resp)
        banner == <<Line("Pushing to origin/", <<branch>>)>>
    IN  IF ~resp.spawned
        THEN Err(call, banner, Line("Failed to execute git push: ", resp.ioerr))
        ELSE Ok(call,
                banner
                \o (IF verbose /\ resp.stdout # <<>> THEN <<Line("", resp.stdout)>> ELSE <<>>)
                \o (IF verbose /\ resp.stderr # <<>> THEN <<Line("", resp.stderr)>> ELSE <<>>)
                \o <<Line("Pushed to origin/", <<branch>>)>>)

\* fn run_git_push(branch, verbose)
run_git_push(branch, verbose, resp) ==
    LET call == GitCall(<<"push", Remote, branch>>, <<>>, resp)
        banner == <<Line("Pushing to origin/", <<branch>>)>>
    IN  IF ~resp.spawned
        THEN Err(call, banner, Line("Failed to execute git push: ", resp.ioerr))
        ELSE IF ~resp.success
        THEN Err(call, banner, Line("git push failed: ", resp.stderr))
        ELSE Ok(call,
                banner
                \o (IF verbose /\ resp.stdout # <<>> THEN <<Line("", resp.stdout)>> ELSE <<>>)
                \o (IF verbose /\ resp.stderr # <<>> THEN <<Line("", resp.stderr)>> ELSE <<>>)
                \o <<Line("Pushed to origin/", <<branch>>)>>)

\* mutant: the --origin option is ignored
PushBranch_AlwaysDefault(origin) == DefaultBranch

\* let branch = args.origin.unwrap_or_else(|| "main".to_string())
PushBranch(origin) == UnwrapOr(origin, DefaultBranch)

\* ---------------------------------------------------------------- state
VARIABLES
    args,        \* parsed command line: message, origin, verbose
    repo,        \* TRUE iff .git exists in the current directory
    pc,          \* workflow state of main
    message,     \* Option: the acquired commit message
    output,      \* Option: the result of the latest Command::output()
    calls,       \* external operations invoked so far, in order, with their status
    stdoutLog,   \* lines printed with println!
    stderrLog,   \* lines printed with eprintln!
    exitCode     \* Option: the ExitCode main returned

vars == <<args, repo, pc, message, output, calls, stdoutLog, stderrLog, exitCode>>

States ==
    <<"Init", "CheckedPrecondition", "Staged", "MessageAcquired", "Committed", "Pushed", "Done">>
Terminal == {"Done", "Failed"}

Init ==
    /\ args \in ArgsSet
    /\ repo \in BOOLEAN
    /\ pc = "Init"
    /\ message = None
    /\ output = None
    /\ calls = <<>>
    /\ stdoutLog = <<>>
    /\ stderrLog = <<>>
    /\ exitCode = None

\* eprintln!("{} {}", "Error:", e); return ExitCode::FAILURE
Fail(e) ==
    /\ pc' = "Failed"
    /\ stderrLog' = Append(stderrLog, e)
    /\ exitCode' = Some(1)

\* a step returned Ok: main goes on to the next step
Advance(next) ==
    /\ pc' = next
    /\ UNCHANGED <<stderrLog, exitCode>>

\* mutant: a supplied message is validated before staging
MainCheckRepo_ValidateFirst ==
    /\ pc = "Init"
    /\ IF ~repo THEN Fail(NotARepoError)
       ELSE IF args.message # None /\ Trim(args.message[1]) = <<>>
       THEN Fail(EmptyMessageError)
       ELSE Advance("CheckedPrecondition")
    /\ UNCHANGED <<args, repo, message, output, calls, stdoutLog>>

\* mutant: the workflow goes on without the .git check
MainCheckRepo_NoCheck ==
    /\ pc = "Init"
    /\ Advance("CheckedPrecondition")
    /\ UNCHANGED <<args, repo, message, output, calls, stdoutLog>>

\* main.rs:29-37
MainCheckRepo ==
    /\ pc = "Init"
    /\ IF ~repo THEN Fail(NotARepoError) ELSE Advance("CheckedPrecondition")
    /\ UNCHANGED <<args, repo, message, output, calls, stdoutLog>>

\* main.rs:39-43
MainGitAdd ==
    /\ pc = "CheckedPrecondition"
    /\ \E resp \in Responses :
        LET r == run_git_add(args.verbose, resp)
        IN  /\ calls' = Append(calls, r.call)
            /\ output' = Some(resp)
            /\ stdoutLog' = stdoutLog \o r.out
            /\ IF r.ok THEN Advance("Staged") ELSE Fail(r.err)
    /\ UNCHANGED <<args, repo, message>>

\* main.rs:45-52
MainGetMessage ==
    /\ pc = "Staged"
    /\ \E presp \in PromptInputs(args.message) :
        LET r == get_commit_message(args.message, presp)
        IN  /\ calls' = calls \o r.calls
            /\ stdoutLog' = stdoutLog \o r.out
            /\ IF r.ok
               THEN message' = Some(r.val) /\ Advance("MessageAcquired")
               ELSE message' = message /\ Fail(r.err)
    /\ UNCHANGED <<args, repo, output>>

\* mutant: a failed commit is tried again
MainGitCommit_Retry ==
    /\ pc = "MessageAcquired"
    /\ \E resp \in Responses :
        LET r == run_git_commit(message[1], args.verbose, resp)
        IN  /\ calls' = Append(calls, r.call)
            /\ output' = Some(resp)
            /\ stdoutLog' = stdoutLog \o r.out
            /\ IF r.ok THEN Advance("Committed") ELSE Advance("MessageAcquired")
    /\ UNCHANGED <<args, repo, message>>

\* mutant: a failed commit is followed by an undo of the staging
MainGitCommit_Rollback ==
    /\ pc = "MessageAcquired"
    /\ \E resp \in Responses :
        LET r == run_git_commit(message[1], args.verbose, resp)
        IN  /\ calls' = (IF r.ok THEN Append(calls, r.call)
                         ELSE Append(calls, r.call) \o <<GitCall(<<"reset">>, <<>>, resp)>>)
            /\ output' = Some(resp)
            /\ stdoutLog' = stdoutLog \o r.out
            /\ IF r.ok THEN Advance("Committed") ELSE Fail(r.err)
    /\ UNCHANGED <<args, repo, message>>

\* main.rs:54-58
MainGitCommit ==
    /\ pc = "MessageAcquired"
    /\ \E resp \in Responses :
        LET r == run_git_commit(message[1], args.verbose, resp)
        IN  /\ calls' = Append(calls, r.call)
            /\ output' = Some(resp)
            /\ stdoutLog' = stdoutLog \o r.out
            /\ IF r.ok THEN Advance("Committed") ELSE Fail(r.err)
    /\ UNCHANGED <<args, repo, message>>

\* mutant: a failed push is tried again
MainGitPush_Retry ==
    /\ pc = "Committed"
    /\ \E resp \in Responses :
        LET r == run_git_push(PushBranch(args.origin), args.verbose, resp)
        IN  /\ calls' = Append(calls, r.call)
            /\ output' = Some(resp)
            /\ stdoutLog' = stdoutLog \o r.out
            /\ IF r.ok THEN Advance("Pushed") ELSE Advance("Committed")
    /\ UNCHANGED <<args, repo, message>>

\* main.rs:60-65
MainGitPush ==
    /\ pc = "Committed"
    /\ \E resp \in Responses :
        LET r == run_git_push(PushBranch(args.origin), args.verbose, resp)
        IN  /\ calls' = Append(calls, r.call)
            /\ output' = Some(resp)
            /\ stdoutLog' = stdoutLog \o r.out
            /\ IF r.ok THEN Advance("Pushed") ELSE Fail(r.err)
    /\ UNCHANGED <<args, repo, message>>

\* main.rs:67-73
MainSuccess ==
    /\ pc = "Pushed"
    /\ pc' = "Done"
    /\ stdoutLog' = Append(stdoutLog, SuccessLine)
    /\ exitCode' = Some(0)
    /\ UNCHANGED <<args, repo, message, output, calls, stderrLog>>

Next ==
    \/ MainCheckRepo
    \/ MainGitAdd
    \/ MainGetMessage
    \/ MainGitCommit
    \/ MainGitPush
    \/ MainSuccess

Spec == Init /\ [][Next]_vars

\* every Command::output() and the prompt return, and main is sequential code:
\* a step that can be taken is eventually taken
FairSpec == Spec /\ WF_vars(Next)

\* ---------------------------------------------------------------- properties
IsGit(c, sub) == c.prog = "git" /\ c.argv[1] = sub
IsAdd(c) == IsGit(c, "add")
IsCommit(c) == IsGit(c, "commit")
IsPush(c) == IsGit(c, "push")
IsPrompt(c) == c.prog = "prompt"
Invoked(P(_)) == \E i \in DOMAIN calls : P(calls[i])
Succeeded(P(_)) == \E i \in DOMAIN calls : P(calls[i]) /\ calls[i].status = "success"
Times(P(_)) == Cardinality({i \in DOMAIN calls : P(calls[i])})
LastCall == calls[Len(calls)]
LastError == stderrLog[Len(stderrLog)]
Blank(m) == \A i \in DOMAIN m : m[i] \in {" ", "\t"}

\* C1: when .git is absent no external operation (git add, git commit, git
\* push, prompt) is ever invoked, and once the check has run the run has
\* failed with exit code 1 and the single error "Not a git repository ...".
C1_NoRepoNoOperation ==
    ~repo =>
        /\ calls = <<>>
        /\ pc \in {"Init", "Failed"}
        /\ pc = "Failed" =>
            /\ exitCode = <<1>>
            /\ stderrLog = <<NotARepoError>>
            /\ stdoutLog = <<>>

C1_Witness == ~repo /\ pc = "Failed" /\ args.message = <<>> /\ exitCode = <<1>>

\* C2: the exit code is 0 exactly when the .git check, git add, message
\* acquisition, git commit and git push all succeeded; every other finished
\* run has exit code 1; an unfinished run has no exit code.
AllStepsSucceeded ==
    /\ repo
    /\ Succeeded(IsAdd)
    /\ message # <<>>
    /\ Succeeded(IsCommit)
    /\ Succeeded(IsPush)

C2_ExitCode ==
    /\ pc \in Terminal => exitCode = (IF AllStepsSucceeded THEN <<0>> ELSE <<1>>)
    /\ pc \notin Terminal => exitCode = <<>>
    /\ pc = "Done" <=> exitCode = <<0>>

C2_Witness == pc = "Done" /\ exitCode = <<0>> /\ AllStepsSucceeded

\* C3: when git add returns a non-success status the run has failed with the
\* git add error, git add is the only operation invoked (no commit, no push,
\* no prompt) and no message was validated or acquired.
C3_AddFailureStops ==
    \A i \in DOMAIN calls :
        IsAdd(calls[i]) /\ calls[i].status = "failure" =>
            /\ pc = "Failed"
            /\ exitCode = <<1>>
            /\ Len(calls) = i
            /\ ~Invoked(IsCommit) /\ ~Invoked(IsPush) /\ ~Invoked(IsPrompt)
            /\ message = <<>>
            /\ stderrLog = <<Line("git add failed: ", output[1].stderr)>>

C3_Witness ==
    /\ pc = "Failed"
    /\ Len(calls) = 1 /\ IsAdd(calls[1]) /\ calls[1].status = "failure"
    /\ args.message = << <<" ">> >>

\* C4: when git commit returns a non-success status, whatever its stderr
\* text, the run has failed and git push is not invoked.
C4_CommitFailureStops ==
    \A i \in DOMAIN calls :
        IsCommit(calls[i]) /\ calls[i].status = "failure" =>
            /\ pc = "Failed"
            /\ exitCode = <<1>>
            /\ Len(calls) = i
            /\ ~Invoked(IsPush)

C4_Witness ==
    /\ pc = "Failed"
    /\ calls # <<>> /\ IsCommit(LastCall) /\ LastCall.status = "failure"
    /\ output[1].stderr = <<"x", "x">>

\* C5: with an empty or whitespace-only --message, git commit and git push
\* are never invoked and the prompt is not consulted; when the run reaches
\* message acquisition (the .git check and git add succeeded) it fails there
\* with the error "Commit message cannot be empty".
C5_BlankSuppliedMessage ==
    (args.message # <<>> /\ Blank(args.message[1])) =>
        /\ ~Invoked(IsCommit) /\ ~Invoked(IsPush) /\ ~Invoked(IsPrompt)
        /\ message = <<>>
        /\ pc \in {"Init", "CheckedPrecondition", "Staged", "Failed"}
        /\ (pc = "Failed" /\ Succeeded(IsAdd)) =>
            /\ stderrLog = <<EmptyMessageError>>
            /\ exitCode = <<1>>
            /\ Len(calls) = 1

C5_Witness ==
    /\ args.message = << <<" ", "\t">> >>
    /\ pc = "Failed"
    /\ Succeeded(IsAdd)
    /\ stderrLog = <<EmptyMessageError>>

\* C6: the message argument of every git commit invocation is non-empty
\* after trimming, for a supplied message and for a prompted one.
C6_CommitMessageNotBlank ==
    \A i \in DOMAIN calls :
        IsCommit(calls[i]) =>
            /\ Len(calls[i].msgArg) = 1
            /\ ~Blank(calls[i].msgArg[1])
            /\ Trim(calls[i].msgArg[1]) # <<>>

C6_Witness ==
    /\ args.message = <<>>
    /\ Invoked(IsPrompt)
    /\ Invoked(IsCommit)
    /\ message = << <<" ", "a", " ">> >>

\* C7: for a supplied message m that is not blank, once the .git check and
\* git add have succeeded message acquisition yields m itself, and git commit
\* is invoked as: git commit -s -m m, with m untrimmed.
C7_SuppliedMessagePassedUntrimmed ==
    (args.message # <<>> /\ ~Blank(args.message[1]) /\ repo /\ Succeeded(IsAdd)) =>
        /\ pc # "Staged" => message = args.message
        /\ pc \notin {"Staged", "MessageAcquired"} =>
            /\ Len(calls) >= 2
            /\ calls[2].prog = "git"
            /\ calls[2].argv = <<"commit", "-s", "-m">>
            /\ calls[2].msgArg = args.message
            /\ Times(IsCommit) = 1

C7_Witness ==
    /\ args.message = << <<" ", "a", "\t">> >>
    /\ Len(calls) >= 2
    /\ IsCommit(calls[2])
    /\ calls[2].msgArg[1] = <<" ", "a", "\t">>

\* C8: every git push invocation is: git push origin <branch>, where <branch>
\* is "main" when --origin was omitted and the --origin value otherwise.
C8_PushTarget ==
    \A i \in DOMAIN calls :
        IsPush(calls[i]) =>
            calls[i].argv =
                <<"push", "origin", IF args.origin = <<>> THEN "main" ELSE args.origin[1]>>

C8_Witness ==
    /\ args.origin = <<"feature-x">>
    /\ calls # <<>> /\ IsPush(LastCall)
    /\ LastCall.argv[3] = "feature-x"

\* C9: after a git commit with a non-success status the reported error is
\* "Nothing to commit, working tree clean" exactly when the captured stderr
\* has "nothing to commit" as a substring, and otherwise the generic commit
\* failure carrying the raw stderr; after a git commit with a success status
\* the run is in Committed with no error reported, whatever stderr holds.
HasNothingToCommit(e) ==
    \E i \in 1..Len(e) : \E j \in i..Len(e) :
        SubSeq(e, i, j) = <<"n","o","t","h","i","n","g"," ","t","o"," ","c","o","m","m","i","t">>

C9_CommitErrorSelection ==
    (calls # <<>> /\ IsCommit(LastCall)) =>
        /\ LastCall.status = "failure" =>
            /\ pc = "Failed"
            /\ stderrLog # <<>>
            /\ (LastError = NothingToCommitError) <=> HasNothingToCommit(output[1].stderr)
            /\ ~HasNothingToCommit(output[1].stderr) =>
                LastError = Line("git commit failed: ", output[1].stderr)
        /\ LastCall.status = "success" =>
            /\ pc = "Committed"
            /\ stderrLog = <<>>

C9_Witness ==
    /\ calls # <<>> /\ IsCommit(LastCall) /\ LastCall.status = "failure"
    /\ output[1].stderr # <<>> /\ Head(output[1].stderr) = "x"
    /\ HasNothingToCommit(output[1].stderr)
    /\ LastError = NothingToCommitError

\* C10: every step of a run goes from a non-terminal state either to the next
\* state of Init, CheckedPrecondition, Staged, MessageAcquired, Committed,
\* Pushed, Done or to Failed; nothing leaves Done or Failed; and git add, git
\* commit and git push are each invoked at most once.
Successor(s) == States[(CHOOSE i \in 1..(Len(States) - 1) : States[i] = s) + 1]

C10_LinearWorkflow ==
    /\ [](Times(IsAdd) <= 1 /\ Times(IsCommit) <= 1 /\ Times(IsPush) <= 1)
    /\ [][/\ pc \notin Terminal
          /\ pc' = Successor(pc) \/ pc' = "Failed"]_vars

C10_Witness ==
    /\ pc = "Done"
    /\ Len(calls) = 4
    /\ IsAdd(calls[1]) /\ IsPrompt(calls[2]) /\ IsCommit(calls[3]) /\ IsPush(calls[4])

\* C11: the validation error for a supplied empty or whitespace-only message
\* is reported only after git add has been invoked (and has succeeded), and
\* while no git commit has been invoked; with .git present and git add
\* succeeding, such a run ends with exactly that error.
C11_ValidationAfterStaging ==
    /\ (\E k \in DOMAIN stderrLog : stderrLog[k] = EmptyMessageError) =>
        /\ calls # <<>>
        /\ IsAdd(calls[1]) /\ calls[1].status = "success"
        /\ ~Invoked(IsCommit)
    /\ (repo /\ args.message # <<>> /\ Blank(args.message[1]) /\ pc = "Failed") =>
        /\ Invoked(IsAdd)
        /\ ~Invoked(IsCommit)
        /\ Succeeded(IsAdd) => stderrLog = <<EmptyMessageError>>

C11_Witness ==
    /\ repo
    /\ args.message = << <<>> >>
    /\ pc = "Failed"
    /\ stderrLog = <<EmptyMessageError>>
    /\ Len(calls) = 1 /\ IsAdd(calls[1]) /\ calls[1].status = "success"

\* C12: a step that failed is the last external operation of the run: every
\* operation invoked is one of git add ., the prompt, git commit -s -m <m>,
\* git push origin <branch> (no undo), an operation that did not succeed is
\* the last one invoked and leaves the run in Failed, every operation before
\* it succeeded, and in Failed the list of invoked operations never grows.
KnownOperation(c) ==
    \/ c.prog = "git" /\ c.argv = <<"add", ".">>
    \/ c.prog = "git" /\ c.argv = <<"commit", "-s", "-m">>
    \/ c.prog = "git" /\ Len(c.argv) = 3 /\ c.argv[1] = "push" /\ c.argv[2] = "origin"
    \/ c.prog = "prompt"

C12_NoOperationAfterFailure ==
    /\ [](\A i \in DOMAIN calls :
            /\ KnownOperation(calls[i])
            /\ calls[i].status # "success" => (i = Len(calls) /\ pc = "Failed")
            /\ i < Len(calls) => calls[i].status = "success")
    /\ [][pc = "Failed" => calls' = calls /\ pc' = "Failed"]_vars

C12_Witness ==
    /\ pc = "Failed"
    /\ Len(calls) = 3
    /\ IsCommit(calls[2]) /\ calls[2].status = "success"
    /\ IsPush(calls[3]) /\ calls[3].status = "failure"

\* C13: the prompt's text gets the same validation as a supplied message: in
\* every run with a supplied text t that has passed message acquisition, the
\* outcome reached (the acquired message, or the error reported) is the
\* outcome the prompt arm computes when the prompt returns t: the validation
\* error if t is empty after trimming, otherwise t itself, untrimmed; and a
\* text acquired from the prompt is one the supplied-message arm accepts as is.
Entered(t) == [ok |-> TRUE, text |-> t, ioerr |-> <<>>]
PromptAnswered == \E i \in DOMAIN calls : IsPrompt(calls[i]) /\ calls[i].status = "success"

C13_PromptValidatedLikeSupplied ==
    /\ (args.message # <<>> /\ Succeeded(IsAdd) /\ pc # "Staged") =>
        LET t == args.message[1]
            p == PromptAndValidate(Entered(t))
        IN  /\ p.ok <=> message # <<>>
            /\ p.ok <=> ~Blank(t)
            /\ p.ok => (message = <<p.val>> /\ p.val = t)
            /\ ~p.ok => (pc = "Failed" /\ stderrLog = <<p.err>>)
    /\ (args.message = <<>> /\ PromptAnswered) =>
        IF message # <<>>
        THEN ValidateSupplied(message[1]).ok /\ ValidateSupplied(message[1]).val = message[1]
        ELSE pc = "Failed" /\ \E t \in Messages : LastError = ValidateSupplied(t).err

C13_Witness ==
    /\ args.message = << <<"\t">> >>
    /\ pc = "Failed"
    /\ Succeeded(IsAdd)
    /\ LastError = PromptAndValidate(Entered(<<"\t">>)).err

\* C14 as stated: the outcome of message acquisition for a supplied empty
\* string differs from the outcome for an empty string returned by the prompt.
C14_EmptyHandledDifferently ==
    (args.message = << <<>> >> /\ Succeeded(IsAdd) /\ pc # "Staged") =>
        LET p == PromptAndValidate(Entered(<<>>))
        IN  \/ p.ok # (message # <<>>)
            \/ (p.ok /\ message # <<p.val>>)
            \/ (~p.ok /\ LastError # p.err)

\* C14 as amended: an empty string is handled alike from both sources: the
\* run with a supplied empty string fails at message acquisition with "Commit
\* message cannot be empty", which is the outcome the prompt arm computes for
\* an entered empty string; and a prompt answer that is rejected is reported
\* with that same error.
C14_EmptyHandledAlike ==
    /\ (args.message = << <<>> >> /\ Succeeded(IsAdd) /\ pc # "Staged") =>
        LET p == PromptAndValidate(Entered(<<>>))
        IN  /\ ~p.ok
            /\ message = <<>>
            /\ pc = "Failed"
            /\ LastError = p.err
            /\ p.err = Line("Commit message cannot be empty", <<>>)
    /\ (args.message = <<>> /\ PromptAnswered /\ message = <<>>) =>
        LastError = ValidateSupplied(<<>>).err

C14_Witness ==
    /\ args = [message |-> << <<>> >>, origin |-> <<>>, verbose |-> FALSE]
    /\ pc = "Failed"
    /\ Succeeded(IsAdd)
    /\ LastError = Line("Commit message cannot be empty", <<>>)

\* C15: when git add, git commit or git push cannot be started, the run is
\* in Failed with exit code 1, the only error line is "Failed to execute git
\* <step>: <io error>", and that invocation is the last operation of the run.
ExecuteError(c) ==
    IF IsAdd(c) THEN "Failed to execute git add: "
    ELSE IF IsCommit(c) THEN "Failed to execute git commit: "
    ELSE "Failed to execute git push: "

C15_SpawnFailureStops ==
    \A i \in DOMAIN calls :
        calls[i].status = "spawn_error" =>
            /\ pc = "Failed"
            /\ exitCode = <<1>>
            /\ i = Len(calls)
            /\ stderrLog = <<Line(ExecuteError(calls[i]), output[1].ioerr)>>
            /\ IsAdd(calls[i]) => ~Invoked(IsPrompt) /\ ~Invoked(IsCommit) /\ ~Invoked(IsPush)
            /\ IsCommit(calls[i]) => ~Invoked(IsPush)

C15_Witness ==
    /\ pc = "Failed"
    /\ calls # <<>> /\ IsCommit(LastCall) /\ LastCall.status = "spawn_error"
    /\ exitCode = <<1>>
    /\ LastError = Line("Failed to execute git commit: ", <<"ENOENT">>)

\* C16: captured tool output is printed for a succeeding step only under
\* verbose. Lines printed with an empty tag are the captured texts.
IsCaptured(l) == l.tag = ""
Captured == SelectSeq(stdoutLog, IsCaptured)
Printed(text) == IF text # <<>> THEN <<Line("", text)>> ELSE <<>>
PushBanner == CHOOSE k \in DOMAIN stdoutLog : stdoutLog[k].tag = "Pushing to origin/"
AfterPushBanner == SubSeq(stdoutLog, PushBanner + 1, Len(stdoutLog))

\* without verbose nothing captured is ever printed
C16_Quiet == ~args.verbose => Captured = <<>>

\* under verbose git add prints its stdout only if it is non-empty
C16_Add ==
    (args.verbose /\ pc = "Staged") =>
        stdoutLog = <<Line("Running git add .", <<>>)>>
                    \o Printed(output[1].stdout)
                    \o <<Line("Staged all changes", <<>>)>>

\* under verbose git commit prints its stdout, empty or not
C16_Commit ==
    (args.verbose /\ pc = "Committed") =>
        /\ Len(stdoutLog) >= 3
        /\ SubSeq(stdoutLog, Len(stdoutLog) - 2, Len(stdoutLog)) =
            <<Line("Committing with message: ", message[1]),
              Line("", output[1].stdout),
              Line("Commit created", <<>>)>>

\* C16 as stated: nothing captured is printed without verbose; under verbose
\* git add prints its stdout only if non-empty, git commit prints its stdout,
\* and git push prints both its stdout and its stderr.
C16_PushPrintsBoth ==
    /\ C16_Quiet
    /\ C16_Add
    /\ C16_Commit
    /\ (args.verbose /\ pc = "Pushed") =>
        AfterPushBanner =
            <<Line("", output[1].stdout), Line("", output[1].stderr),
              Line("Pushed to origin/", <<LastCall.argv[3]>>)>>

\* C16 as amended: nothing captured is printed without verbose; under verbose
\* git add prints its stdout only if non-empty, git commit prints its stdout,
\* and git push prints its stdout only if it is non-empty and its stderr only
\* if it is non-empty.
C16_VerboseOutput ==
    /\ C16_Quiet
    /\ C16_Add
    /\ C16_Commit
    /\ (args.verbose /\ pc = "Pushed") =>
        AfterPushBanner =
            Printed(output[1].stdout) \o Printed(output[1].stderr)
            \o <<Line("Pushed to origin/", <<LastCall.argv[3]>>)>>

C16_Witness ==
    /\ args.verbose
    /\ pc = "Pushed"
    /\ output[1].stdout = <<>>
    /\ output[1].stderr = <<"x", "x">>
    /\ AfterPushBanner = <<Line("", <<"x", "x">>), Line("Pushed to origin/", <<LastCall.argv[3]>>)>>

\* C17: provided every external invocation and the prompt return, every run
\* eventually reaches Done or Failed and stays there, with an exit code, and
\* having attempted git add, the prompt, git commit and git push at most once
\* each.
C17_Terminates ==
    /\ <>[](pc \in Terminal)
    /\ [](pc \in Terminal =>
            /\ exitCode # <<>>
            /\ (pc = "Done") # (pc = "Failed")
            /\ Times(IsAdd) <= 1 /\ Times(IsPrompt) <= 1
            /\ Times(IsCommit) <= 1 /\ Times(IsPush) <= 1)

C17_Witness ==
    /\ pc = "Done"
    /\ args.message # <<>>
    /\ Times(IsAdd) = 1 /\ Times(IsPrompt) = 0 /\ Times(IsCommit) = 1 /\ Times(IsPush) = 1

\* C18: verbose does not influence control flow. Stated step by step: verbose
\* never changes during a run, and whenever the run takes one of the steps
\* that read verbose (git add, git commit, git push) on a response resp, the
\* same step evaluated with verbose negated on the same resp invokes the same
\* operation with the same arguments, returns the same Ok or Err, reports the
\* same error and leads to the same workflow state and exit code. (The .git
\* check, message acquisition and the final exit do not read verbose.) Two
\* runs that differ only in verbose and receive the same responses therefore
\* agree, step after step, on pc, calls, message, the errors and the exit code.
SameControl(r, next) ==
    /\ calls' = Append(calls, r.call)
    /\ message' = message
    /\ IF r.ok
       THEN pc' = next /\ stderrLog' = stderrLog /\ exitCode' = exitCode
       ELSE pc' = "Failed" /\ stderrLog' = Append(stderrLog, r.err) /\ exitCode' = <<1>>

C18_VerboseNoControlFlow ==
    [][/\ args' = args
       /\ pc = "CheckedPrecondition" =>
            SameControl(run_git_add(~args.verbose, output'[1]), "Staged")
       /\ pc = "MessageAcquired" =>
            SameControl(run_git_commit(message[1], ~args.verbose, output'[1]), "Committed")
       /\ pc = "Committed" =>
            SameControl(run_git_push(PushBranch(args.origin), ~args.verbose, output'[1]), "Pushed")
       /\ pc \in {"Init", "Staged", "Pushed"} => output' = output]_vars

C18_Witness ==
    /\ args.verbose
    /\ pc = "Failed"
    /\ calls # <<>> /\ IsPush(LastCall) /\ LastCall.status = "failure"
    /\ Len(Captured) = 2
    /\ LastError = Line("git push failed: ", output[1].stderr)
====
